---------------------------- MODULE Spec2Model ----------------------------
(***************************************************************************)
(* Model of the bin-packing propagator's decision procedures of Gecode     *)
(* (src/gecode/int/bin-packing/propagate.hpp): SizeSet / SizeSetMinusOne,  *)
(* Pack::nosum, the dual-feasibility transforms and their sampler.         *)
(*                                                                         *)
(* Arrays are functions over 0..n-1, as in the source.  Each component has *)
(* its own state record; a component that is not running is "idle".        *)
(***************************************************************************)
EXTENDS Integers, Sequences, FiniteSets, TLC

VARIABLES ns,   \* the running call of Pack::nosum: arguments, locals, position
          ss,   \* a SizeSetMinusOne object and the values passed to minus()
          df,   \* the running call of Pack::calcDffLowerbound
          pk,   \* the Pack propagators alive: the posted one and its clones
          bt    \* a sparse BitSet and the dense word array it stands for

vars == <<ns, ss, df, pk, bt>>

(***************************************************************************)
(* Bounds of the model                                                     *)
(***************************************************************************)
MaxSize == 4     \* largest item size drawn
MaxLen == 3      \* largest number of sizes in a size set
MaxCap == 4      \* largest of the small capacities and weights drawn
MaxItems == 3    \* largest number of weights passed to calcDffLowerbound
MaxSamples == 3  \* largest value of nLambdaSamples drawn
MaxPacks == 3    \* largest number of Pack propagators alive at a time
MaxClones == 3   \* longest chain of clonings followed
MaxWords == 3    \* largest number n of words of a BitSet

\* std::numeric_limits<int>::max() of the working int, here 16 bits wide
IntMax == 32767

(***************************************************************************)
(* Helpers                                                                 *)
(***************************************************************************)
\* number of entries of an array
ArrLen(s) == Cardinality(DOMAIN s)

RECURSIVE SumTo(_, _)
\* s[0] + ... + s[m-1]
SumTo(s, m) == IF m <= 0 THEN 0 ELSE s[m-1] + SumTo(s, m-1)

\* the arrays of at most MaxLen sizes in 0..MaxSize, in non-increasing order
SortedArrays ==
  UNION { { s \in [0..(L-1) -> 0..MaxSize] :
              \A i \in 0..(L-2) : s[i] >= s[i+1] } : L \in 0..MaxLen }

\* the sums of the sub-multisets of the first m entries of s
RECURSIVE SubsetSums(_, _)
SubsetSums(s, m) ==
  IF m <= 0 THEN {0}
  ELSE LET r == SubsetSums(s, m-1) IN r \cup { x + s[m-1] : x \in r }

(***************************************************************************)
(* SizeSet: n, t and the array s                                           *)
(***************************************************************************)
\* SizeSet::SizeSet(region, n_max): n(0), t(0); the storage holds nothing yet
SizeSetNew == [n |-> 0, t |-> 0, s |-> <<>>]

\* SizeSet::add: t += s0; s[n++] = s0
SizeSetAdd(z, s0) ==
  [n |-> z.n + 1, t |-> z.t + s0, s |-> [i \in 0..z.n |-> IF i = z.n THEN s0 ELSE z.s[i]]]

SizeSetCard(z) == z.n
SizeSetTotal(z) == z.t
\* SizeSet::operator[]; an index outside the filled part reads storage that
\* was never written: the callers below record such a read in "oob"
SizeSetAt(z, i) == IF i \in 0..(z.n - 1) THEN z.s[i] ELSE 0

RECURSIVE SizeSetFill(_, _)
\* the size set after add(a[0]), ..., add(a[m-1])
SizeSetFill(a, m) == IF m <= 0 THEN SizeSetNew ELSE SizeSetAdd(SizeSetFill(a, m-1), a[m-1])

(***************************************************************************)
(* Pack::nosum, one step per loop iteration                                *)
(***************************************************************************)
NsIdle ==
  [pc |-> "idle", arity |-> 5, s |-> SizeSetNew, a |-> 0, b |-> 0,
   ap |-> 0, bp |-> 0, ap0 |-> 0, bp0 |-> 0,
   n |-> 0, sc |-> 0, kp |-> 0, k |-> 0, sa |-> 0, sb |-> 0,
   ret |-> FALSE, reads |-> 0, oob |-> FALSE, steps |-> 0,
   os |-> SizeSetNew, oa |-> 0, ob |-> 0, ret2 |-> FALSE, cnt |-> TRUE]

\* mutant: the trivial rule lets a = 0 through
NosumTrivialStrict(a, b, t) == (a < 0) \/ (b >= t)
\* the trivial rule (line 176)
NosumTrivial(a, b, t) == (a <= 0) \/ (b >= t)
\* the smallest-first accumulation continues (line 181)
NosumLoop1Cond(sc, x, a) == sc + x < a
\* mutant: the main loop stops when sb reaches b
NosumLoop2CondStrict(sa, a, sb, b) == (sa < a) /\ (sb < b)
\* the main loop continues (line 187)
NosumLoop2Cond(sa, a, sb, b) == (sa < a) /\ (sb <= b)
\* mutant: the fold-back loop stops one step late
NosumLoop3CondLate(sa, sc, a) == sa + sc > a
\* the fold-back loop continues (line 193)
NosumLoop3Cond(sa, sc, a) == sa + sc >= a
\* mutant: a largest-first sum equal to a counts as below a
NosumResultLoose(sa, a) == sa <= a
\* the value returned (line 201)
NosumResult(sa, a) == sa < a

\* an element access with an index outside the set
NsOob(i) == i \notin 0..(SizeSetCard(ns.s) - 1)

\* the counters at an element access: kp smallest items are summed in sc, k
\* largest ones in sa, and the two groups are apart
NsCounters(k, kp) == kp >= 0 /\ k + kp <= SizeSetCard(ns.s)

\* mutant: n is the number of items
NosumLastOff(card) == card
\* n, the index of the smallest item (line 178)
NosumLast(card) == card - 1

\* mutant: the fold-back loop moves kp up
NosumFoldKpUp(kp) == kp + 1
\* kp-- of the fold-back loop (line 194)
NosumFoldKp(kp) == kp - 1

\* a caller invokes nosum(s,a,b,ap,bp); ap and bp are the caller's variables,
\* holding ap0 and bp0
NosumCall(s, a, b, ap0, bp0) ==
  /\ ns.pc = "idle"
  /\ ns' = [NsIdle EXCEPT !.pc = "entry", !.arity = 5,
                          !.s = SizeSetFill(s, ArrLen(s)),
                          !.a = a, !.b = b,
                          !.ap = ap0, !.bp = bp0, !.ap0 = ap0, !.bp0 = bp0]
  /\ UNCHANGED <<ss, df, pk, bt>>

\* the arguments the overload passes on (line 208)
Nosum2Args(s, a, b) == [s |-> s, a |-> a, b |-> b]
\* the value the overload returns, given the inner call's (line 208)
Nosum2Result(r) == r

\* a caller invokes the overload nosum(s,a,b) (lines 204-208): its locals ap
\* and bp hold whatever the stack held (u), and it calls nosum(s,a,b,ap,bp)
Nosum2Call(s, a, b, u) ==
  /\ ns.pc = "idle"
  /\ LET z == SizeSetFill(s, ArrLen(s))
         in == Nosum2Args(z, a, b)
     IN ns' = [NsIdle EXCEPT !.pc = "entry", !.arity = 2,
                             !.os = z, !.oa = a, !.ob = b,
                             !.s = in.s, !.a = in.a, !.b = in.b,
                             !.ap = u, !.bp = u, !.ap0 = u, !.bp0 = u]
  /\ UNCHANGED <<ss, df, pk, bt>>

\* lines 176-180
NosumEntry ==
  /\ ns.pc = "entry"
  /\ IF NosumTrivial(ns.a, ns.b, SizeSetTotal(ns.s))
       THEN ns' = [ns EXCEPT !.pc = "done", !.ret = FALSE]
       ELSE ns' = [ns EXCEPT !.pc = "loop1",
                             !.n = NosumLast(SizeSetCard(ns.s)),
                             !.sc = 0, !.kp = 0]
  /\ UNCHANGED <<ss, df, pk, bt>>

\* lines 181-186: one test of the first loop, then its body or its exit
NosumLoop1 ==
  /\ ns.pc = "loop1"
  /\ LET i == ns.n - ns.kp
         x == SizeSetAt(ns.s, i)
     IN IF NosumLoop1Cond(ns.sc, x, ns.a)
          THEN ns' = [ns EXCEPT !.sc = ns.sc + x, !.kp = ns.kp + 1,
                                !.reads = ns.reads + 2,
                                !.oob = ns.oob \/ NsOob(i),
                                !.cnt = ns.cnt /\ NsCounters(0, ns.kp),
                                !.steps = ns.steps + 1]
          ELSE ns' = [ns EXCEPT !.pc = "loop2", !.k = 0, !.sa = 0, !.sb = x,
                                !.reads = ns.reads + 2,
                                !.oob = ns.oob \/ NsOob(i),
                                !.cnt = ns.cnt /\ NsCounters(0, ns.kp)]
  /\ UNCHANGED <<ss, df, pk, bt>>

\* lines 187-192 and 199-201: one test of the main loop, then its body up to
\* the fold-back loop, or the exit and the return
NosumLoop2 ==
  /\ ns.pc = "loop2"
  /\ IF NosumLoop2Cond(ns.sa, ns.a, ns.sb, ns.b)
       THEN LET sa1 == ns.sa + SizeSetAt(ns.s, ns.k)
                k1 == ns.k + 1
                kp1 == ns.kp - 1
                y == SizeSetAt(ns.s, ns.n - kp1)
            IN IF sa1 < ns.a
                 THEN ns' = [ns EXCEPT !.pc = "loop3", !.sa = sa1, !.k = k1,
                                       !.kp = kp1, !.sb = ns.sb + y,
                                       !.sc = ns.sc - y,
                                       !.reads = ns.reads + 3,
                                       !.oob = ns.oob \/ NsOob(ns.k)
                                                      \/ NsOob(ns.n - kp1),
                                       !.cnt = /\ ns.cnt
                                               /\ NsCounters(ns.k, ns.kp)
                                               /\ NsCounters(k1, ns.kp)
                                               /\ NsCounters(k1, kp1),
                                       !.steps = ns.steps + 1]
                 ELSE ns' = [ns EXCEPT !.sa = sa1, !.k = k1,
                                       !.reads = ns.reads + 1,
                                       !.oob = ns.oob \/ NsOob(ns.k),
                                       !.cnt = /\ ns.cnt
                                               /\ NsCounters(ns.k, ns.kp)
                                               /\ NsCounters(k1, ns.kp),
                                       !.steps = ns.steps + 1]
       ELSE ns' = [ns EXCEPT !.pc = "done", !.ap = ns.sa + ns.sc, !.bp = ns.sb,
                             !.ret = NosumResult(ns.sa, ns.a)]
  /\ UNCHANGED <<ss, df, pk, bt>>

\* lines 193-197: one test of the fold-back loop, then its body or its exit
NosumLoop3 ==
  /\ ns.pc = "loop3"
  /\ IF NosumLoop3Cond(ns.sa, ns.sc, ns.a)
       THEN LET kp1 == NosumFoldKp(ns.kp)
                i == ns.n - kp1
                j == ns.n - kp1 - ns.k - 1
            IN ns' = [ns EXCEPT !.kp = kp1,
                                !.sc = ns.sc - SizeSetAt(ns.s, i),
                                !.sb = ns.sb + SizeSetAt(ns.s, i)
                                             - SizeSetAt(ns.s, j),
                                !.reads = ns.reads + 3,
                                !.oob = ns.oob \/ NsOob(i) \/ NsOob(j),
                                !.cnt = ns.cnt /\ NsCounters(ns.k, kp1),
                                !.steps = ns.steps + 1]
       ELSE ns' = [ns EXCEPT !.pc = "loop2"]
  /\ UNCHANGED <<ss, df, pk, bt>>

\* the inner call of the overload has returned: the overload returns (line 208)
Nosum2Return ==
  /\ ns.pc = "done"
  /\ ns.arity = 2
  /\ ns' = [ns EXCEPT !.pc = "done2", !.ret2 = Nosum2Result(ns.ret)]
  /\ UNCHANGED <<ss, df, pk, bt>>

\* the call has returned; the caller goes on
NosumReturn ==
  /\ \/ ns.pc = "done" /\ ns.arity = 5
     \/ ns.pc = "done2"
  /\ ns' = NsIdle
  /\ UNCHANGED <<ss, df, pk, bt>>

(***************************************************************************)
(* Pack::nosum as a function of its arguments: [ret, ap, bp, wr], where wr *)
(* says whether ap and bp were written                                     *)
(***************************************************************************)
RECURSIVE NosumFirst(_, _, _, _, _)
\* lines 181-184: the values of <<sc, kp>> when the first loop exits
NosumFirst(z, n, a, sc, kp) ==
  IF NosumLoop1Cond(sc, SizeSetAt(z, n - kp), a)
    THEN NosumFirst(z, n, a, sc + SizeSetAt(z, n - kp), kp + 1)
    ELSE <<sc, kp>>

RECURSIVE NosumFold(_, _, _, _, _, _, _, _)
\* lines 193-197: the values of <<kp, sc, sb>> when the fold-back loop exits
NosumFold(z, n, a, k, sa, kp, sc, sb) ==
  IF NosumLoop3Cond(sa, sc, a)
    THEN NosumFold(z, n, a, k, sa, kp - 1, sc - SizeSetAt(z, n - (kp - 1)),
                   sb + SizeSetAt(z, n - (kp - 1))
                      - SizeSetAt(z, n - (kp - 1) - k - 1))
    ELSE <<kp, sc, sb>>

RECURSIVE NosumMain(_, _, _, _, _, _, _, _, _)
\* lines 187-201
NosumMain(z, n, a, b, k, sa, kp, sc, sb) ==
  IF NosumLoop2Cond(sa, a, sb, b)
    THEN LET sa1 == sa + SizeSetAt(z, k)
             k1 == k + 1
         IN IF sa1 < a
              THEN LET kp1 == kp - 1
                       y == SizeSetAt(z, n - kp1)
                       f == NosumFold(z, n, a, k1, sa1, kp1, sc - y, sb + y)
                   IN NosumMain(z, n, a, b, k1, sa1, f[1], f[2], f[3])
              ELSE NosumMain(z, n, a, b, k1, sa1, kp, sc, sb)
    ELSE [ret |-> NosumResult(sa, a), ap |-> sa + sc, bp |-> sb, wr |-> TRUE]

\* lines 175-202
NosumFn(z, a, b) ==
  IF NosumTrivial(a, b, SizeSetTotal(z))
    THEN [ret |-> FALSE, ap |-> 0, bp |-> 0, wr |-> FALSE]
    ELSE LET n == SizeSetCard(z) - 1
             f == NosumFirst(z, n, a, 0, 0)
         IN NosumMain(z, n, a, b, 0, 0, f[2], f[1], SizeSetAt(z, n - f[2]))

(***************************************************************************)
(* SizeSetMinusOne: a SizeSet z and the cursor p                           *)
(***************************************************************************)
\* SizeSetMinusOne::SizeSetMinusOne(region, n_max): SizeSet(region,n_max), p(-1);
\* hist is the sequence of values passed to minus() so far
SsmNew == [z |-> SizeSetNew, p |-> -1, hist |-> <<>>]

\* mutant: the scan also passes over entries equal to s0
SsmSkipEqual(x, s0) == x >= s0
\* the scan of minus() continues over s[p] (line 123)
SsmSkip(x, s0) == x > s0

RECURSIVE SsmScan(_, _, _)
\* SizeSetMinusOne::minus: do p++; while (s[p] > s0);  a read past the filled
\* part (which assert(p < n) excludes) ends the scan with p >= n
SsmScan(z, p, s0) ==
  LET q == p + 1
  IN IF q < z.n /\ SsmSkip(z.s[q], s0) THEN SsmScan(z, q, s0) ELSE q

\* SizeSetMinusOne::card
SsmCard(m) == m.z.n - 1
\* SizeSetMinusOne::total
SsmTotal(m) == m.z.t - m.z.s[m.p]
\* SizeSetMinusOne::operator[]
SsmAt(m, i) == m.z.s[IF i < m.p THEN i ELSE i + 1]

\* number of entries of sequence or array f equal to v
Count(f, v) == Cardinality({i \in DOMAIN f : f[i] = v})

\* the caller appends sizes in non-increasing order, before the first minus()
SsAdd(s0) ==
  /\ ss.hist = <<>>
  /\ ss.z.n < MaxLen
  /\ ss.z.n > 0 => s0 <= ss.z.s[ss.z.n - 1]
  /\ ss' = [ss EXCEPT !.z = SizeSetAdd(ss.z, s0)]
  /\ UNCHANGED <<ns, df, pk, bt>>

\* the caller excludes the next item: its size s0 is at most the size excluded
\* before, and is an occurrence of the set not excluded yet
SsMinus(s0) ==
  /\ ss.hist # <<>> => s0 <= ss.hist[Len(ss.hist)]
  /\ Count(ss.hist, s0) < Count(ss.z.s, s0)
  /\ ss' = [ss EXCEPT !.p = SsmScan(ss.z, ss.p, s0),
                      !.hist = Append(ss.hist, s0)]
  /\ UNCHANGED <<ns, df, pk, bt>>

\* the propagation pass ends: the set is discarded and a new one is made
SsDiscard ==
  /\ ss.z.n > 0
  /\ ss' = SsmNew
  /\ UNCHANGED <<ns, df, pk, bt>>

(***************************************************************************)
(* The working int: IntMin..IntMax.  Signed overflow is undefined: a build *)
(* either wraps the result around or traps.  A computation returns         *)
(* [v, o, z]: the wrapped value, whether an intermediate result left the   *)
(* int range, and whether it divided by zero.                              *)
(***************************************************************************)
IntMin == -IntMax - 1
InInt(x) == IntMin <= x /\ x <= IntMax
Wrap(x) == ((x - IntMin) % (2 * (IntMax + 1))) + IntMin
Abs(x) == IF x < 0 THEN -x ELSE x
Min2(x, y) == IF x <= y THEN x ELSE y
Max2(x, y) == IF x >= y THEN x ELSE y
\* C's / and %, truncating towards zero; a zero divisor is reported by the
\* caller in z, and the quotient is then 0 here
CDiv(x, y) ==
  IF y = 0 THEN 0
  ELSE IF (x >= 0) = (y > 0) THEN Abs(x) \div Abs(y) ELSE -(Abs(x) \div Abs(y))
CMod(x, y) == x - CDiv(x, y) * y
\* the value of a C condition
B(p) == IF p THEN 1 ELSE 0
\* some value of the set xs is outside the int range
Ovf(xs) == \E x \in xs : ~InInt(x)

\* ceil_div_pp(x,y) of gecode/int/div.hpp: ceiling division of nonnegative
\* operands, ((x % y) == 0) ? x/y : (x/y + 1)
CeilDivPP(x, y) == IF CMod(x, y) = 0 THEN CDiv(x, y) ELSE CDiv(x, y) + 1

(***************************************************************************)
(* The six transforms f(w,l,c) (lines 211-327)                             *)
(***************************************************************************)
\* Pack::fCCM1
fCCM1(w, l, c) ==
  LET d == 2 * w
      q1 == CDiv(c, l)
      cw == c - w
      e == q1 - CDiv(Wrap(cw), l)
      v0 == 2 * Wrap(e)
      v1 == q1
      v2 == 2 * CDiv(w, l)
      c0 == B(Wrap(d) > c)
      c1 == B(Wrap(d) = c)
      c2 == B(Wrap(d) < c)
      r == (c0 * Wrap(v0)) + (c1 * v1) + (c2 * Wrap(v2))
  IN [v |-> Wrap(r), o |-> Ovf({d, cw, e, v0, v2, r}), z |-> l = 0]

\* Pack::fMT
fMT(w, l, c) ==
  LET e == c - l
      c0 == B(w < l)
      c1 == B(l <= w /\ w <= Wrap(e))
      c2 == B(Wrap(e) < w)
      r == (c0 * 0) + (c1 * w) + (c2 * c)
  IN [v |-> Wrap(r), o |-> Ovf({e, r}), z |-> FALSE]

\* Pack::fBJ1
fBJ1(w, l, c) ==
  LET cm == CMod(c, l)
      wm == CMod(w, l)
      p == l - cm
      c0 == B(wm <= cm)
      c1 == B(wm > cm)
      v0 == CDiv(w, l) * Wrap(p)
      a1 == Wrap(v0) + wm
      v1 == Wrap(a1) - cm
      r == (c0 * Wrap(v0)) + (c1 * Wrap(v1))
  IN [v |-> Wrap(r), o |-> Ovf({p, v0, a1, v1, r}), z |-> l = 0]

\* Pack::fVB2Base
fVB2Base(w, l, c) ==
  LET x == l * w
      v == CeilDivPP(Wrap(x), c)
      r == IF Wrap(v) > 0 THEN Wrap(v) - 1 ELSE 0
  IN [v |-> Wrap(r), o |-> Ovf({x, v, r}), z |-> c = 0]

\* Pack::fVB2
fVB2(w, l, c) ==
  LET d == 2 * w
      c0 == B(Wrap(d) > c)
      c1 == B(Wrap(d) = c)
      c2 == B(Wrap(d) < c)
      cw == c - w
      t0 == fVB2Base(c, l, c)
      t1 == fVB2Base(w, l, c)
      t2 == fVB2Base(Wrap(cw), l, c)
      m0 == 2 * t0.v
      m2 == 2 * t2.v
      v0 == Wrap(m0) - Wrap(m2)
      v1 == t0.v
      v2 == 2 * t1.v
      r == (c0 * Wrap(v0)) + (c1 * v1) + (c2 * Wrap(v2))
  IN [v |-> Wrap(r),
      o |-> t0.o \/ t1.o \/ t2.o \/ Ovf({d, cw, m0, m2, v0, v2, r}),
      z |-> c = 0]

\* Pack::fFS1
fFS1(w, l, c) ==
  LET l1 == l + 1
      x == w * Wrap(l1)
      c0 == B(CMod(Wrap(x), c) = 0)
      c1 == B(CMod(Wrap(x), c) # 0)
      v0 == w * l
      v1 == CDiv(Wrap(x), c) * c
      r == (c0 * Wrap(v0)) + (c1 * Wrap(v1))
  IN [v |-> Wrap(r), o |-> Ovf({l1, x, v0, v1, r}), z |-> c = 0]

\* Pack::fRAD2Base
fRAD2Base(w, l, c) ==
  LET l2 == 2 * l
      e == c - Wrap(l2)
      c0 == B(w < l)
      c1 == B(l <= w /\ w <= Wrap(e))
      c2 == B(Wrap(e) < w /\ w < Wrap(l2))
      r == (c0 * 0) + (c1 * CDiv(c, 3)) + (c2 * CDiv(c, 2))
  IN [v |-> Wrap(r), o |-> Ovf({l2, e, r}), z |-> FALSE]

\* Pack::fRAD2
fRAD2(w, l, c) ==
  LET l2 == 2 * l
      c0 == B(w < Wrap(l2))
      c1 == B(Wrap(l2) <= w)
      cw == c - w
      t0 == fRAD2Base(w, l, c)
      t1 == fRAD2Base(Wrap(cw), l, c)
      v1 == c - t1.v
      r == (c0 * t0.v) + (c1 * Wrap(v1))
  IN [v |-> Wrap(r), o |-> t0.o \/ t1.o \/ Ovf({l2, cw, v1, r}), z |-> FALSE]

Transforms == {"CCM1", "MT", "BJ1", "VB2", "FS1", "RAD2"}

\* the template argument f of calcDffLowerbound
Transform(f, w, l, c) ==
  CASE f = "CCM1" -> fCCM1(w, l, c)
    [] f = "MT" -> fMT(w, l, c)
    [] f = "BJ1" -> fBJ1(w, l, c)
    [] f = "VB2" -> fVB2(w, l, c)
    [] f = "FS1" -> fFS1(w, l, c)
    [] f = "RAD2" -> fRAD2(w, l, c)

(***************************************************************************)
(* The lambda ranges (lines 329-339) and sanitizeLambdaRange               *)
(***************************************************************************)
lCCM1(c) == [min |-> 1, max |-> CDiv(c, 2)]
lMT(c) == [min |-> 0, max |-> CDiv(c, 2)]
lBJ1(c) == [min |-> 1, max |-> c]
lVB2(c) == [min |-> 2, max |-> c]
lFS1(c) == [min |-> 1, max |-> 100]
lRAD2(c) == [min |-> CDiv(c, 4) + 1, max |-> CDiv(c, 3)]

\* the template argument l of calcDffLowerbound
LambdaRangeOf(f, c) ==
  CASE f = "CCM1" -> lCCM1(c)
    [] f = "MT" -> lMT(c)
    [] f = "BJ1" -> lBJ1(c)
    [] f = "VB2" -> lVB2(c)
    [] f = "FS1" -> lFS1(c)
    [] f = "RAD2" -> lRAD2(c)

\* Pack::sanitizeLambdaRange: [r, o] with r the range returned
sanitizeLambdaRange(lambdaRange, nNotZeroWeights, maxWeight) ==
  LET nm == nNotZeroWeights * maxWeight
  IN [r |-> IF Wrap(nm) # 0
              THEN [min |-> lambdaRange.min,
                    max |-> Min2(CDiv(IntMax, Wrap(nm)), lambdaRange.max)]
              ELSE [min |-> 0, max |-> -1],
      o |-> Ovf({nm})]

(***************************************************************************)
(* calcDffLowerbound and calcDffLowerboundSingleLambda, one step per loop  *)
(* iteration.  count is the number of lambdas evaluated, last and prev the *)
(* two latest of them, divs the number of divisions by tc made.  ovf says   *)
(* that sanitizeLambdaRange, a transform or the running sum has overflowed *)
(* in this call, ovfLoop that lStep, lambda or a lowerbound has.           *)
(***************************************************************************)
\* the caller's count of the nonzero weights and their maximum
NotZeroWeights(weights) == Cardinality({i \in DOMAIN weights : weights[i] # 0})
MaxWeight(weights) ==
  IF DOMAIN weights = {} THEN 0
  ELSE CHOOSE x \in {weights[i] : i \in DOMAIN weights} :
         \A i \in DOMAIN weights : weights[i] <= x

DfIdle ==
  [pc |-> "idle", f |-> "MT", weights |-> <<>>, capacity |-> 0,
   nNotZeroWeights |-> 0, maxWeight |-> 0, sanitize |-> FALSE,
   nLambdaSamples |-> 1,
   range0 |-> [min |-> 0, max |-> 0], range |-> [min |-> 0, max |-> 0],
   lStep |-> 0, lambda |-> 0, fLowerbound |-> 0,
   count |-> 0, last |-> 0, prev |-> 0, wIdx |-> 0, sum |-> 0,
   divs |-> 0, tc |-> 0, lb |-> 0, ovf |-> FALSE, ovfLoop |-> FALSE]

\* lines 378-382, up to the first test of the loop: where overflow is
\* undefined the build's outcome is drawn from {wrap, trap}
DffCall(f, weights, capacity, sanitize, nLambdaSamples) ==
  /\ df.pc = "idle"
  /\ LET n == NotZeroWeights(weights)
         m == MaxWeight(weights)
         r0 == LambdaRangeOf(f, capacity)
         sn == sanitizeLambdaRange(r0, n, m)
         r == IF sanitize THEN sn.r ELSE r0
         d == r.max - r.min
         d1 == Wrap(d) + 1
         lStep == CeilDivPP(Wrap(d1), nLambdaSamples + 1)
         la == r.min + Wrap(lStep)
         os == sanitize /\ sn.o
         ol == Ovf({d, d1, lStep, la})
         go == [DfIdle EXCEPT !.pc = "loop", !.f = f, !.weights = weights,
                              !.capacity = capacity, !.sanitize = sanitize,
                              !.nNotZeroWeights = n, !.maxWeight = m,
                              !.nLambdaSamples = nLambdaSamples,
                              !.range0 = r0, !.range = r,
                              !.lStep = Wrap(lStep), !.lambda = Wrap(la),
                              !.ovf = os, !.ovfLoop = ol]
     IN \E out \in {"wrap"} \cup (IF os \/ ol THEN {"trap"} ELSE {}) :
          df' = IF out = "trap" THEN [go EXCEPT !.pc = "trap"] ELSE go
  /\ UNCHANGED <<ns, ss, pk, bt>>

\* lines 382-384 and 360-362: the loop test holds and
\* calcDffLowerboundSingleLambda(weights, capacity, lambda) is entered.  The
\* model follows a call for at most nLambdaSamples + 1 evaluations
DffEnter ==
  /\ df.pc = "loop"
  /\ df.lambda < df.range.max
  /\ df.count <= df.nLambdaSamples
  /\ df' = [df EXCEPT !.pc = "sum", !.wIdx = 0, !.sum = 0,
                      !.count = df.count + 1,
                      !.prev = df.last, !.last = df.lambda]
  /\ UNCHANGED <<ns, ss, pk, bt>>

\* lines 362-365: sumTransformedWeights += f(weights[wIdx], lambda, capacity).
\* A division by zero ends the run ("fpe"); on overflow the build's outcome
\* is drawn from {wrap, trap}
DffSum ==
  /\ df.pc = "sum"
  /\ df.wIdx < ArrLen(df.weights)
  /\ LET tw == Transform(df.f, df.weights[df.wIdx], df.lambda, df.capacity)
         s == df.sum + tw.v
         ov == tw.o \/ Ovf({s})
     IN \E out \in (IF tw.z THEN {"fpe"} ELSE {"wrap"})
                     \cup (IF ov THEN {"trap"} ELSE {}) :
          df' = [df EXCEPT !.pc = IF out = "wrap" THEN "sum" ELSE out,
                           !.sum = IF out = "wrap" THEN Wrap(s) ELSE df.sum,
                           !.wIdx = IF out = "wrap" THEN df.wIdx + 1
                                                   ELSE df.wIdx,
                           !.ovf = df.ovf \/ ov]
  /\ UNCHANGED <<ns, ss, pk, bt>>

\* lines 367-371 and 385, then lambda += lStep (line 382): the transformed
\* capacity tc, the bound lb = ceil_div_pp(sum, tc) and the maximum
DffBound ==
  /\ df.pc = "sum"
  /\ df.wIdx >= ArrLen(df.weights)
  /\ LET tc == Transform(df.f, df.capacity, df.lambda, df.capacity)
         lb == CeilDivPP(df.sum, tc.v)
         la == df.lambda + df.lStep
         ol == Ovf({lb, la})
         dz == tc.z \/ tc.v = 0
         \* the division is reached unless the transform has trapped
         div(out) == out # "trap" \/ ~tc.o
     IN \E out \in (IF dz THEN {"fpe"} ELSE {"wrap"})
                     \cup (IF tc.o \/ ol THEN {"trap"} ELSE {}) :
          df' = [df EXCEPT !.pc = IF out = "wrap" THEN "loop" ELSE out,
                           !.tc = IF div(out) THEN tc.v ELSE df.tc,
                           !.divs = IF div(out) THEN df.divs + 1 ELSE df.divs,
                           !.lb = IF out = "wrap" THEN Wrap(lb) ELSE df.lb,
                           !.fLowerbound =
                              IF out = "wrap"
                                THEN Max2(df.fLowerbound, Wrap(lb))
                                ELSE df.fLowerbound,
                           !.lambda = IF out = "wrap" THEN Wrap(la)
                                                     ELSE df.lambda,
                           !.ovf = df.ovf \/ tc.o,
                           !.ovfLoop = df.ovfLoop \/ ol]
  /\ UNCHANGED <<ns, ss, pk, bt>>

\* lines 382 and 387: the loop test fails; fLowerbound is returned
DffExit ==
  /\ df.pc = "loop"
  /\ ~(df.lambda < df.range.max)
  /\ df' = [df EXCEPT !.pc = "done"]
  /\ UNCHANGED <<ns, ss, pk, bt>>

\* the call is over; the caller goes on
DffReturn ==
  /\ df.pc \in {"done", "trap", "fpe"}
  /\ df' = DfIdle
  /\ UNCHANGED <<ns, ss, pk, bt>>

(***************************************************************************)
(* Item and Pack (lines 40-68 and 149-163).  An item is [x, s]: its bin    *)
(* view and its size.  A Pack is [bs, t, gen, posted]: the item array, the *)
(* cached total, the number of clonings between it and the propagator      *)
(* posted, and the item array that one was posted with.                    *)
(***************************************************************************)
\* Item::Item(void): a fresh item has size 0
ItemNew == [x |-> 0, s |-> 0]

\* Item::Item(IntView b, int s0)
ItemOf(b, s0) == [x |-> b, s |-> s0]

\* Item::size(void)
ItemSize(i) == i.s

\* Item::update(home, i): the fresh item takes the bin view and the size of i
ItemUpdateFresh(i) == [ItemNew EXCEPT !.x = i.x]
ItemUpdate(i) == [ItemNew EXCEPT !.x = i.x, !.s = i.s]

\* bs.update(home, p.bs): a new array, each element updated from p's
ItemsUpdate(bs) == [i \in DOMAIN bs |-> ItemUpdate(bs[i])]

\* the loop of the posting constructor: t after the first m items
RECURSIVE PackTotalTo(_, _)
PackTotalTo(bs, m) ==
  IF m = 0 THEN 0 ELSE Wrap(PackTotalTo(bs, m - 1) + ItemSize(bs[m - 1]))

\* the cloning constructor's initialiser t(p.t)
PackCloneTotalZero(p) == 0
PackCloneTotal(p) == p.t

\* Pack::Pack(home, l0, bs0)
PackPost(bs0) ==
  /\ pk = <<>>
  /\ pk' = <<[bs |-> bs0, t |-> PackTotalTo(bs0, ArrLen(bs0)), gen |-> 0,
              posted |-> bs0]>>
  /\ UNCHANGED <<ns, ss, df, bt>>

\* Pack::Pack(home, p): the clone of the j-th propagator
PackClone(j) ==
  /\ j \in 1..Len(pk)
  /\ Len(pk) < MaxPacks
  /\ pk[j].gen < MaxClones
  /\ pk' = Append(pk, [bs |-> ItemsUpdate(pk[j].bs),
                       t |-> PackCloneTotal(pk[j]),
                       gen |-> pk[j].gen + 1,
                       posted |-> pk[j].posted])
  /\ UNCHANGED <<ns, ss, df, bt>>

\* Pack::dispose(home) of the j-th propagator
PackDispose(j) ==
  /\ j \in 1..Len(pk)
  /\ pk' = SubSeq(pk, 1, j - 1) \o SubSeq(pk, j + 1, Len(pk))
  /\ UNCHANGED <<ns, ss, df, bt>>

(***************************************************************************)
(* BitSet (gecode/int/extensional/bit-set.hpp).  A word (BitSetData) is    *)
(* the set of the positions of its bits that are set.  bt holds _limit,    *)
(* index and bits, and beside them the dense array of n words that the     *)
(* same operations are applied to word by word, the _limit and the word    *)
(* positions held before the latest operation, the word positions its scan *)
(* has visited, whether the source's assertions held, and the latest       *)
(* answer of intersects with its argument.                                 *)
(***************************************************************************)
\* the width of BitSetData
WordBits == 2
AllBits == 0..(WordBits - 1)
Words == SUBSET AllBits

\* BitSetData::a, BitSetData::o, operator ~ and none()
WordAnd(x, y) == x \cap y
WordOr(x, y) == x \cup y
WordNot(x) == AllBits \ x
WordNone(x) == x = {}

BtNone ==
  [pc |-> "none", n |-> 0, limit |-> 0, index |-> <<>>, bits |-> <<>>,
   dense |-> <<>>, lim0 |-> 0, live0 |-> {}, seen |-> <<>>, asrt |-> TRUE,
   asked |-> FALSE, q |-> <<>>, res |-> FALSE]

\* BitSet::BitSet(home, n): all bits of all words set, index[i] = i
BitSetNew(n) ==
  [BtNone EXCEPT !.pc = "live", !.n = n, !.limit = n,
                 !.index = [i \in 0..(n-1) |-> i],
                 !.bits = [i \in 0..(n-1) |-> AllBits],
                 !.dense = [w \in 0..(n-1) |-> AllBits],
                 !.lim0 = n, !.live0 = 0..(n-1)]

\* BitSet::BitSet(home, bs): arrays of _limit entries, copied from bs
BitSetCopy(bs) ==
  [bs EXCEPT !.index = [i \in 0..(bs.limit-1) |-> bs.index[i]],
             !.bits = [i \in 0..(bs.limit-1) |-> bs.bits[i]],
             !.lim0 = bs.limit,
             !.live0 = {bs.index[i] : i \in 0..(bs.limit-1)},
             !.seen = <<>>, !.asked = FALSE, !.q = <<>>, !.res = FALSE]

\* mutant: the word position of the emptied slot is kept
MovedIndexStale(bs, i) == bs.index[i]
\* index[i] = index[_limit-1] (line 99)
MovedIndex(bs, i) == bs.index[bs.limit - 1]

\* BitSet::replace_and_decrease(i, w)
replace_and_decrease(bs, i, w) ==
  LET b1 == [bs EXCEPT !.bits[i] = w]
  IN IF w # bs.bits[i]
       THEN IF WordNone(w)
              THEN [b1 EXCEPT !.bits[i] = b1.bits[bs.limit - 1],
                              !.index[i] = MovedIndex(bs, i),
                              !.limit = bs.limit - 1]
              ELSE b1
       ELSE bs

\* one iteration of a scan at slot i with the new word w: the assertions
\* before and after replace_and_decrease, and the word position visited
BtIter(bs, i, w) ==
  LET b1 == replace_and_decrease(bs, i, w)
  IN [b1 EXCEPT !.seen = Append(bs.seen, bs.index[i]),
                !.asrt = /\ bs.asrt
                         /\ ~WordNone(bs.bits[i])
                         /\ (i = b1.limit \/ ~WordNone(b1.bits[i]))]

\* BitSet::intersect_with_mask<sparse>(mask): the slots below i, descending
RECURSIVE intersect_with_mask(_, _, _, _)
intersect_with_mask(bs, sparse, mask, i) ==
  IF i = 0 THEN bs
  ELSE LET w_i == bs.bits[i-1]
           w_a == IF sparse THEN WordAnd(w_i, mask[bs.index[i-1]])
                            ELSE WordAnd(w_i, mask[i-1])
       IN intersect_with_mask(BtIter(bs, i-1, w_a), sparse, mask, i-1)

\* BitSet::intersect_with_masks(a, b): the slots below i, descending
RECURSIVE intersect_with_masks(_, _, _, _)
intersect_with_masks(bs, a, b, i) ==
  IF i = 0 THEN bs
  ELSE LET w_i == bs.bits[i-1]
           offset == bs.index[i-1]
           w_o == WordOr(a[offset], b[offset])
           w_a == WordAnd(w_i, w_o)
       IN intersect_with_masks(BtIter(bs, i-1, w_a), a, b, i-1)

\* BitSet::nand_with_mask(b): the slots below i, descending
RECURSIVE nand_with_mask(_, _, _)
nand_with_mask(bs, b, i) ==
  IF i = 0 THEN bs
  ELSE LET w == WordAnd(bs.bits[i-1], WordNot(b[bs.index[i-1]]))
       IN nand_with_mask(BtIter(bs, i-1, w), b, i-1)

\* BitSet::intersects(b): the slots below i, descending
RECURSIVE intersects(_, _, _)
intersects(bs, b, i) ==
  IF i = 0 THEN FALSE
  ELSE IF ~WordNone(WordAnd(bs.bits[i-1], b[bs.index[i-1]])) THEN TRUE
  ELSE intersects(bs, b, i-1)

\* the state an operation starts its scan from
BtStart ==
  [bt EXCEPT !.lim0 = bt.limit,
             !.live0 = {bt.index[i] : i \in 0..(bt.limit-1)},
             !.seen = <<>>, !.asked = FALSE, !.q = <<>>, !.res = FALSE]

\* a BitSet of n words is constructed
BtConstruct(n) ==
  /\ bt.pc = "none"
  /\ bt' = BitSetNew(n)
  /\ UNCHANGED <<ns, ss, df, pk>>

\* the BitSet is copied to a new space, and the copy is followed
BtCopy ==
  /\ bt.pc = "live"
  /\ bt.limit > 0
  /\ bt' = BitSetCopy(bt)
  /\ UNCHANGED <<ns, ss, df, pk>>

BtIntersectWithMask(mask) ==
  /\ bt.pc = "live"
  /\ bt.limit > 0
  /\ \E r \in {intersect_with_mask(BtStart, TRUE, mask, bt.limit)} :
       bt' = [r EXCEPT !.dense = [w \in 0..(bt.n-1) |->
                                    WordAnd(bt.dense[w], mask[w])]]
  /\ UNCHANGED <<ns, ss, df, pk>>

BtIntersectWithMasks(a, b) ==
  /\ bt.pc = "live"
  /\ bt.limit > 0
  /\ \E r \in {intersect_with_masks(BtStart, a, b, bt.limit)} :
       bt' = [r EXCEPT !.dense = [w \in 0..(bt.n-1) |->
                                    WordAnd(bt.dense[w], WordOr(a[w], b[w]))]]
  /\ UNCHANGED <<ns, ss, df, pk>>

BtNandWithMask(b) ==
  /\ bt.pc = "live"
  /\ bt.limit > 0
  /\ \E r \in {nand_with_mask(BtStart, b, bt.limit)} :
       bt' = [r EXCEPT !.dense = [w \in 0..(bt.n-1) |->
                                    WordAnd(bt.dense[w], WordNot(b[w]))]]
  /\ UNCHANGED <<ns, ss, df, pk>>

BtIntersects(b) ==
  /\ bt.pc = "live"
  /\ bt' = [bt EXCEPT !.pc = "asked", !.asked = TRUE, !.q = b,
                      !.res = intersects(bt, b, bt.limit)]
  /\ UNCHANGED <<ns, ss, df, pk>>

\* the caller has the answer and goes on
BtAnswered ==
  /\ bt.pc = "asked"
  /\ bt' = [bt EXCEPT !.pc = "live", !.asked = FALSE, !.q = <<>>,
                      !.res = FALSE]
  /\ UNCHANGED <<ns, ss, df, pk>>

\* the BitSet goes away with its space
BtDiscard ==
  /\ bt.pc = "live"
  /\ bt' = BtNone
  /\ UNCHANGED <<ns, ss, df, pk>>

(***************************************************************************)
(* Specifications                                                          *)
(***************************************************************************)
Init ==
  /\ ns = NsIdle
  /\ ss = SsmNew
  /\ df = DfIdle
  /\ pk = <<>>
  /\ bt = BtNone

\* the calls of nosum drawn: every non-increasing s, and a <= b from below the
\* trivial rule's lower limit to above its upper limit
NosumInvoke ==
  /\ ns.pc = "idle"
  /\ \E s \in SortedArrays :
       \E a \in (-1)..(SumTo(s, ArrLen(s)) + 1) :
         \E b \in a..(SumTo(s, ArrLen(s)) + 1) :
           \E o \in {-1, 1} : NosumCall(s, a, b, o, o)

Nosum2Invoke ==
  /\ ns.pc = "idle"
  /\ \E s \in SortedArrays :
       \E a \in (-1)..(SumTo(s, ArrLen(s)) + 1) :
         \E b \in a..(SumTo(s, ArrLen(s)) + 1) :
           \E u \in {-1, 1} : Nosum2Call(s, a, b, u)

NextNoSum ==
  \/ NosumInvoke
  \/ Nosum2Invoke
  \/ NosumEntry
  \/ NosumLoop1
  \/ NosumLoop2
  \/ NosumLoop3
  \/ Nosum2Return
  \/ NosumReturn

NextSizeSet ==
  \/ \E s0 \in 0..MaxSize : SsAdd(s0)
  \/ \E s0 \in 0..MaxSize : SsMinus(s0)
  \/ SsDiscard

\* the capacities and weights drawn: the small ones, and large ones near the
\* square root, the half and the top of the int range
Capacities == 0..MaxCap \cup {384, IntMax - 1}
Weights == 0..MaxCap \cup {60, 21846}
WeightArrays ==
  UNION { { w \in [0..(L-1) -> Weights] :
              \A i \in 0..(L-2) : w[i] >= w[i+1] } : L \in 0..MaxItems }

DffInvoke ==
  /\ df.pc = "idle"
  /\ \E f \in Transforms : \E capacity \in Capacities :
       \E weights \in WeightArrays : \E sanitize \in BOOLEAN :
         \E nLambdaSamples \in 1..MaxSamples :
           DffCall(f, weights, capacity, sanitize, nLambdaSamples)

NextDff ==
  \/ DffInvoke
  \/ DffEnter
  \/ DffSum
  \/ DffBound
  \/ DffExit
  \/ DffReturn

\* the item arrays posted: up to MaxLen items of sizes 0..MaxSize on bins 0, 1
ItemArrays ==
  UNION { [0..(L-1) -> {ItemOf(b, s0) : b \in {0}, s0 \in 0..MaxSize}] :
            L \in 0..MaxLen }

NextPack ==
  \/ \E bs0 \in ItemArrays : PackPost(bs0)
  \/ \E j \in 1..MaxPacks : PackClone(j)
  \/ \E j \in 1..MaxPacks : PackDispose(j)

\* the word arrays passed as masks: any word at each position where the
\* dense array still has a bit, and at the other positions, where every AND
\* is empty, one word, empty or full; and the arrays made of one word
Masks ==
  LET live == {w \in 0..(bt.n-1) : ~WordNone(bt.dense[w])}
  IN { [w \in 0..(bt.n-1) |-> IF w \in live THEN f[w] ELSE d] :
         f \in [live -> Words], d \in {{}, AllBits} }
UniformMasks == { [w \in 0..(bt.n-1) |-> x] : x \in Words }

NextBitSet ==
  \/ \E n \in 1..MaxWords : BtConstruct(n)
  \/ BtCopy
  \/ \E mask \in Masks : BtIntersectWithMask(mask)
  \/ \E a \in Masks : \E b \in UniformMasks : BtIntersectWithMasks(a, b)
  \/ \E b \in Masks : BtNandWithMask(b)
  \/ \E b \in Masks : BtIntersects(b)
  \/ BtAnswered
  \/ BtDiscard

Next == NextNoSum \/ NextSizeSet \/ NextDff \/ NextPack \/ NextBitSet

Spec == Init /\ [][Next]_vars
SpecNoSum == Init /\ [][NextNoSum]_vars
\* a call of nosum runs on: nothing in it waits or suspends
NosumRun == NosumEntry \/ NosumLoop1 \/ NosumLoop2 \/ NosumLoop3
LiveNoSum == SpecNoSum /\ WF_vars(NosumRun)
SpecSizeSet == Init /\ [][NextSizeSet]_vars
SpecDff == Init /\ [][NextDff]_vars
SpecPack == Init /\ [][NextPack]_vars
SpecBitSet == Init /\ [][NextBitSet]_vars

(***************************************************************************)
(* Properties of Pack::nosum                                               *)
(***************************************************************************)
\* total(S) and the sub-multiset sums of S, by enumeration
NsTotal == SumTo(ns.s.s, ns.s.n)
NsSums == SubsetSums(ns.s.s, ns.s.n)
\* the call is outside the trivial rule
NsProper == 0 < ns.a /\ ns.a <= ns.b /\ ns.b < NsTotal

\* C1: if nosum returns true for 0 < a <= b < total(S), no sub-multiset of S
\* has a sum in ]a,b]
NoSumSoundness ==
  (ns.pc = "done" /\ NsProper /\ ns.ret)
    => \A x \in NsSums : ~(ns.a < x /\ x <= ns.b)

\* nosum has returned true on a set of three sizes for a non-empty ]a,b]
NoSumSoundnessWitness ==
  ns.pc = "done" /\ NsProper /\ ns.ret /\ ns.a < ns.b /\ ns.s.n = 3

\* C2 as stated: if nosum returns false for 0 < a <= b < total(S), some
\* sub-multiset of S has a sum in ]a,b]
NoSumDecidesGap ==
  (ns.pc = "done" /\ NsProper /\ ~ns.ret)
    => \E x \in NsSums : ns.a < x /\ x <= ns.b

\* C2 amended: if nosum returns true for 0 < a <= b < total(S), no
\* sub-multiset of S has a sum in the closed interval [a,b]; a result of
\* false promises nothing
NoSumSoundnessClosed ==
  (ns.pc = "done" /\ NsProper /\ ns.ret)
    => \A x \in NsSums : ~(ns.a <= x /\ x <= ns.b)

\* nosum has returned true for a = b
NoSumSoundnessClosedWitness ==
  ns.pc = "done" /\ NsProper /\ ns.ret /\ ns.a = ns.b /\ ns.s.n >= 2

\* nosum has returned false although no sub-multiset sum lies in [a,b]
NoSumIncomplete ==
  /\ ns.pc = "done" /\ NsProper /\ ~ns.ret
  /\ \A x \in NsSums : ~(ns.a <= x /\ x <= ns.b)

\* C3: if nosum returns true for 0 < a <= b < total(S), ap is a sub-multiset
\* sum with ap <= a, bp is a sub-multiset sum with bp > b, and no
\* sub-multiset sum lies strictly between ap and bp
NoSumOutputBounds ==
  (ns.pc = "done" /\ NsProper /\ ns.ret)
    => /\ ns.ap \in NsSums /\ ns.ap <= ns.a
       /\ ns.bp \in NsSums /\ ns.bp > ns.b
       /\ \A x \in NsSums : ~(ns.ap < x /\ x < ns.bp)

\* nosum has returned true with outputs that differ from the caller's values
NoSumOutputBoundsWitness ==
  /\ ns.pc = "done" /\ NsProper /\ ns.ret /\ ns.arity = 5
  /\ ns.ap # ns.ap0 /\ ns.bp # ns.bp0 /\ ns.ap > 0 /\ ns.kp > 0

\* C10: under the trivial rule (a <= 0 or b >= total(S)) nosum returns false,
\* has read no element of S and has left ap and bp as the caller had them;
\* the overload nosum(s,a,b) returns what nosum(s,a,b,ap,bp) returns
NoSumTrivialRule ==
  /\ (ns.pc = "done" /\ (ns.a <= 0 \/ ns.b >= NsTotal))
       => /\ ns.ret = FALSE
          /\ ns.reads = 0
          /\ ns.ap = ns.ap0 /\ ns.bp = ns.bp0
  /\ ns.pc = "done2" => ns.ret2 = NosumFn(ns.os, ns.oa, ns.ob).ret

\* the overload has returned false on an empty set
NoSumTrivialRuleWitness ==
  ns.pc = "done2" /\ ns.os.n = 0 /\ ns.ret2 = FALSE /\ ns.reads = 0

\* the loop iterations of a call are at most twice the number of sizes
NsLinear == ns.steps <= 2 * SizeSetCard(ns.s)

\* in the main loop and the fold-back loop k does not decrease and kp does
\* not increase
NsMonotone ==
  ns.pc \in {"loop2", "loop3"} => (ns'.k >= ns.k /\ ns'.kp <= ns.kp)

\* C13 -- termination of nosum: every call on non-increasing nonnegative
\* sizes with a <= b returns, after at most 2 * card(S) loop iterations, with
\* k only increasing and kp never increasing after the first loop
NoSumTerminates ==
  /\ []NsLinear
  /\ [][NsMonotone]_vars
  /\ (ns.pc = "entry") ~> (ns.pc = "done")

\* a call that has returned after running all three loops, with as many
\* iterations as there are sizes or more
NoSumTerminatesWitness ==
  /\ ns.pc = "done" /\ NsProper
  /\ ns.steps >= SizeSetCard(ns.s) /\ ns.k >= 2 /\ ns.kp = 0 /\ ns.sc = 0

\* C14 -- index safety of nosum: for 0 < a <= b < total every element access
\* has an index in [0, card(S)-1], and at every access kp >= 0 and
\* k + kp <= card(S), so that the k largest items summed in sa and the kp
\* smallest ones summed in sc are apart
NoSumIndexSafety == NsProper => (~ns.oob /\ ns.cnt)

NoSumIndexSafetyWitness ==
  /\ ns.pc = "done" /\ NsProper /\ ns.reads >= 8
  /\ ns.k + ns.kp = SizeSetCard(ns.s)

(***************************************************************************)
(* Properties of SizeSetMinusOne                                           *)
(***************************************************************************)
\* the array a of m entries without the first entry equal to v
RemoveOne(a, m, v) ==
  LET j == CHOOSE i \in 0..(m-1) : a[i] = v /\ \A h \in 0..(i-1) : a[h] # v
  IN [i \in 0..(m-2) |-> IF i < j THEN a[i] ELSE a[i+1]]

\* what the queries of the SizeSetMinusOne show
SsView == [i \in 0..(SsmCard(ss) - 1) |-> SsmAt(ss, i)]

\* C5: after every minus(v) of a non-increasing sequence of exclusions, each an
\* occurrence of the set, total() is the sum of the sizes added minus v,
\* card() is their number minus 1, and operator[] enumerates the sizes added
\* without one occurrence of v, in non-increasing order
SizeSetMinusOneView ==
  ss.hist # <<>> =>
    LET v == ss.hist[Len(ss.hist)]
        a == ss.z.s
        m == ArrLen(ss.z.s)
    IN /\ ss.p \in 0..(m-1)
       /\ SsmTotal(ss) = SumTo(a, m) - v
       /\ SsmCard(ss) = m - 1
       /\ SsView = RemoveOne(a, m, v)
       /\ \A i \in 0..(SsmCard(ss) - 2) : SsmAt(ss, i) >= SsmAt(ss, i+1)

\* the second of two equal sizes has been excluded, after the first
SizeSetMinusOneViewWitness ==
  /\ Len(ss.hist) >= 2
  /\ ss.hist[Len(ss.hist)] = ss.hist[Len(ss.hist) - 1]
  /\ ss.z.n = 3 /\ ss.p = 2 /\ ss.z.s[0] > ss.z.s[1]

(***************************************************************************)
(* Properties of the dual-feasibility bound (SpecDff)                      *)
(***************************************************************************)
\* the loads of the bins under the assignment g of the items to bins
BinLoad(weights, g, k) ==
  LET RECURSIVE Load(_)
      Load(i) == IF i = 0 THEN 0
                 ELSE Load(i - 1) + (IF g[i - 1] = k THEN weights[i - 1] ELSE 0)
  IN Load(ArrLen(weights))

\* the minimum number of bins of capacity c that take all the items, by
\* enumeration of the assignments; every weight is at most c
MinBins(weights, c) ==
  LET n == ArrLen(weights)
      fits == { g \in [0..(n-1) -> 0..(n-1)] :
                  \A k \in 0..(n-1) : BinLoad(weights, g, k) <= c }
      used(g) == Cardinality({g[i] : i \in 0..(n-1)})
  IN CHOOSE k \in 0..n : /\ \E g \in fits : used(g) = k
                         /\ \A g \in fits : used(g) >= k

DfFits == df.capacity > 0
          /\ \A i \in DOMAIN df.weights : df.weights[i] <= df.capacity

\* a lowerbound has been computed in this call and was taken into fLowerbound
DfBounded == df.pc \in {"loop", "done"} /\ df.count > 0

\* x / y rounded up, in exact arithmetic, y > 0
CeilExact(x, y) == -((-x) \div y)

\* the latest bound and the maximum are at most the minimum number of bins
DfSound ==
  (DfBounded /\ DfFits) =>
     /\ df.lb <= MinBins(df.weights, df.capacity)
     /\ df.fLowerbound <= MinBins(df.weights, df.capacity)

\* C4 -- dual-feasibility soundness: for capacity > 0 and weights of at
\* most the capacity, the bound of every lambda sampled from the sanitized
\* range, and the maximum fLowerbound, is at most the minimum number of bins
DffSoundness == df.sanitize => DfSound

\* C4, with or without sanitize, for the calls in which nothing has overflowed
DffSoundnessExact == (~df.ovf /\ ~df.ovfLoop) => DfSound

DffSoundnessExactWitness ==
  /\ DfBounded /\ DfFits /\ ~df.ovf /\ ~df.ovfLoop
  /\ df.lb = MinBins(df.weights, df.capacity) /\ df.lb >= 2

\* C6 -- sanitization safety: with sanitize = true nothing computed in
\* sanitizeLambdaRange, in a transform or in the running sum leaves the int
\* range
SanitizationSafety == df.sanitize => ~df.ovf

\* C7 -- sanitizeLambdaRange: for n*m # 0 the range keeps its min and has
\* max = min(range.max, INT_MAX div (n*m)), so n*m*lambda <= INT_MAX on it;
\* for n*m = 0 the range is [0,-1], no lambda is evaluated and the bound is 0
SanitizeClamp ==
  (df.sanitize /\ df.pc # "idle") =>
     LET nm == df.nNotZeroWeights * df.maxWeight
     IN IF nm # 0
          THEN /\ df.range.min = df.range0.min
               /\ df.range.max = Min2(df.range0.max, IntMax \div nm)
               /\ (df.range.max >= 1 => df.range.max <= IntMax \div nm)
          ELSE /\ df.range = [min |-> 0, max |-> -1]
               /\ df.count = 0
               /\ (df.pc = "done" => df.fLowerbound = 0)

\* C7, for the calls in which n*m is inside the int range
SanitizeClampExact ==
  InInt(df.nNotZeroWeights * df.maxWeight) => SanitizeClamp

SanitizeClampExactWitness ==
  /\ df.sanitize /\ df.pc = "done"
  /\ InInt(df.nNotZeroWeights * df.maxWeight)
  /\ df.nNotZeroWeights * df.maxWeight > 1
  /\ df.range.max < df.range0.max

SanitizeEmptyWitness ==
  /\ df.sanitize /\ df.pc = "done" /\ ArrLen(df.weights) > 0
  /\ df.nNotZeroWeights = 0 /\ df.capacity > 0

\* the transformed capacity of the latest ceiling division is positive
DfDivisor == (df.divs > 0 /\ df.capacity > 0) => df.tc > 0

\* C8 -- no division by zero: for capacity > 0 and every lambda sampled from
\* the sanitized range the transformed capacity is positive at the ceiling
\* division
DivisorPositive == df.sanitize => DfDivisor

\* C8, with or without sanitize, for the calls in which nothing has overflowed
DivisorPositiveExact == (~df.ovf /\ ~df.ovfLoop) => DfDivisor

DivisorPositiveExactWitness ==
  df.divs > 1 /\ df.capacity > 0 /\ ~df.ovf /\ ~df.ovfLoop /\ df.pc = "done"

\* every lambda evaluated is strictly between range.min and range.max, two
\* consecutive ones differ by lStep, and
\* lStep = ceil((max - min + 1) / (nLambdaSamples + 1))
DfInside ==
  df.count > 0 =>
     /\ df.range.min < df.last /\ df.last < df.range.max
     /\ df.lStep = CeilExact(df.range.max - df.range.min + 1,
                             df.nLambdaSamples + 1)
     /\ (df.count >= 2 => df.last - df.prev = df.lStep)

\* C9 -- sampling strictly inside the sanitized range, in steps of lStep
SamplingInside == df.sanitize => DfInside

\* C9, with or without sanitize, for the calls in which lStep and lambda
\* have not overflowed
SamplingInsideExact == ~df.ovfLoop => DfInside

SamplingInsideExactWitness ==
  df.count >= 3 /\ ~df.ovfLoop /\ df.f = "MT" /\ df.pc = "done"

\* the loop has evaluated at most nLambdaSamples lambdas, and with a step of
\* at least 1
DfBoundedLoop ==
  /\ df.count <= df.nLambdaSamples
  /\ df.count > 0 => df.lStep >= 1

\* C12 -- termination of calcDffLowerbound: for every transform, capacity
\* and range, empty and inverted ones included, lStep is at least 1 whenever
\* the loop body is entered and at most nLambdaSamples lambdas are evaluated
SamplerBounded == df.sanitize => DfBoundedLoop

\* C12, with or without sanitize, for the calls in which lStep and lambda
\* have not overflowed
SamplerBoundedExact == ~df.ovfLoop => DfBoundedLoop

\* a call on an inverted range that has ended without an evaluation, and a
\* call that has ended after nLambdaSamples evaluations
SamplerInvertedWitness ==
  df.pc = "done" /\ df.range.max < df.range.min - 1 /\ df.count = 0
  /\ df.lStep < 0 /\ ~df.ovfLoop

SamplerFullWitness ==
  df.pc = "done" /\ df.count = df.nLambdaSamples /\ df.count = MaxSamples
  /\ ~df.ovfLoop

(***************************************************************************)
(* Properties of Pack (SpecPack)                                           *)
(***************************************************************************)
\* the sum of bs[i].size() over the first m items, in exact arithmetic
RECURSIVE SizeSum(_, _)
SizeSum(bs, m) == IF m = 0 THEN 0 ELSE SizeSum(bs, m - 1) + bs[m - 1].s

\* C11 -- Pack total invariant: after posting and after any chain of
\* clones, t of every Pack equals the sum of the sizes of its items, and
\* its items have the sizes the propagator was posted with
PackTotalInvariant ==
  \A j \in 1..Len(pk) :
     /\ pk[j].t = SizeSum(pk[j].bs, ArrLen(pk[j].bs))
     /\ DOMAIN pk[j].bs = DOMAIN pk[j].posted
     /\ \A i \in DOMAIN pk[j].bs : pk[j].bs[i].s = pk[j].posted[i].s

\* a clone of a clone of a propagator with a positive total
PackTotalInvariantWitness ==
  \E j \in 1..Len(pk) : pk[j].gen >= 2 /\ pk[j].t > MaxSize

(***************************************************************************)
(* Properties of BitSet (SpecBitSet)                                       *)
(***************************************************************************)
\* the dense array of n words that index and bits stand for
BtDense ==
  [w \in 0..(bt.n-1) |->
     IF \E i \in 0..(bt.limit-1) : bt.index[i] = w
       THEN bt.bits[CHOOSE i \in 0..(bt.limit-1) : bt.index[i] = w]
       ELSE {}]

\* the latest scan has visited every word position held before it, each once
BtScanned ==
  /\ {bt.seen[j] : j \in 1..Len(bt.seen)} = bt.live0
  /\ Len(bt.seen) = Cardinality(bt.live0)

\* C15 -- the sparse BitSet refines a dense word array: after every
\* operation every slot below _limit holds a non-empty word, the index
\* entries below _limit are distinct word positions, _limit has not grown,
\* index and bits stand for the dense array the same operations give, every
\* scan visits each word once, and intersects(b) is true iff the dense AND
\* with b is non-empty
BitSetRefinesDense ==
  bt.pc # "none" =>
     /\ \A i \in 0..(bt.limit-1) : ~WordNone(bt.bits[i])
     /\ \A i \in 0..(bt.limit-1) : bt.index[i] \in 0..(bt.n-1)
     /\ \A i, j \in 0..(bt.limit-1) : i # j => bt.index[i] # bt.index[j]
     /\ bt.limit <= bt.lim0
     /\ BtDense = bt.dense
     /\ bt.asrt
     /\ bt.seen # <<>> => BtScanned
     /\ bt.asked =>
          (bt.res <=> \E w \in 0..(bt.n-1) :
                         ~WordNone(WordAnd(bt.dense[w], bt.q[w])))

\* a scan has emptied a slot that was not the last one and has moved the
\* last slot's word, of another word position, into it; and intersects has
\* answered true and false on that BitSet
BitSetRefinesDenseWitness ==
  /\ bt.pc = "asked" /\ bt.res
  /\ bt.limit = 2 /\ bt.n = 3 /\ bt.index[0] = 2 /\ bt.bits[0] # AllBits

BitSetRefinesDenseWitnessFalse ==
  /\ bt.pc = "asked" /\ ~bt.res /\ bt.limit >= 1 /\ bt.index[0] # 0
  /\ \E w \in 0..(bt.n-1) : ~WordNone(bt.q[w])

====
